---------------------------- MODULE Spec2Model ----------------------------
(***************************************************************************)
(* KuzuTestApp-Bridging-Header.h, read the way the C preprocessor reads    *)
(* it: one directive at a time, inside a compilation unit that includes    *)
(* it.  The state is the preprocessor's: the names defined so far (with    *)
(* the file that defined each), the include stack, the paths looked up,    *)
(* and the error that stopped the build, if any.                           *)
(*                                                                         *)
(* The header's text is the constant BridgingHeader, one record per        *)
(* source line.  What lies outside the header is input: which include      *)
(* paths resolve (those naming kuzu.h, and the header's own name as an     *)
(* include written in kuzu.h names it), what kuzu.h holds (declarations    *)
(* and, possibly, an include of the bridging header itself), whether the   *)
(* guard macro is already defined when the unit starts, and how often the  *)
(* unit includes the header.  The unit's own inclusion of the header is    *)
(* taken as found: it is what starts the processing.                       *)
(***************************************************************************)
EXTENDS Naturals, Sequences, FiniteSets

(* ------------------------------ bounds --------------------------------- *)

\* inclusions of the bridging header the compilation unit makes
MaxIncludes == 2
\* lines of kuzu.h
MaxKuzuLen == 3
\* the preprocessor's include nesting limit
MaxDepth == 5

(* --------------------- the header, line by line ------------------------ *)

GuardMacro == "KuzuTestApp_Bridging_Header_h"

LocalPath == "KuzuHeaders/kuzu.h"

AltPaths == <<"Kuzu/kuzu.h", "c_api/kuzu.h", "kuzu.h", "Kuzu/c_api/kuzu.h">>

Line(k, a) == [kind |-> k, arg |-> a]

\* mutants of the header's text (see the claims below)
BridgingHeader_IncludeCommentedOut ==
    << Line("ifndef", GuardMacro),
       Line("define", GuardMacro),
       Line("blank", ""),
       Line("comment", "Using local copy of the header with suggested path"),
       Line("comment", LocalPath),
       Line("comment", AltPaths[1]),
       Line("comment", AltPaths[2]),
       Line("comment", AltPaths[3]),
       Line("comment", AltPaths[4]),
       Line("blank", ""),
       Line("endif", GuardMacro) >>

BridgingHeader_ImportUncommented ==
    << Line("ifndef", GuardMacro),
       Line("define", GuardMacro),
       Line("blank", ""),
       Line("comment", "Using local copy of the header with suggested path"),
       Line("include", LocalPath),
       Line("import", AltPaths[1]),
       Line("comment", AltPaths[2]),
       Line("comment", AltPaths[3]),
       Line("comment", AltPaths[4]),
       Line("blank", ""),
       Line("endif", GuardMacro) >>

BridgingHeader_OwnDeclaration ==
    << Line("ifndef", GuardMacro),
       Line("define", GuardMacro),
       Line("blank", ""),
       Line("decl", "kuzu_test_app_state"),
       Line("include", LocalPath),
       Line("comment", AltPaths[1]),
       Line("comment", AltPaths[2]),
       Line("comment", AltPaths[3]),
       Line("comment", AltPaths[4]),
       Line("blank", ""),
       Line("endif", GuardMacro) >>

BridgingHeader_GuardTypo ==
    << Line("ifndef", GuardMacro),
       Line("define", "KuzuTestApp_Bridging_Header_H"),
       Line("blank", ""),
       Line("comment", "Using local copy of the header with suggested path"),
       Line("include", LocalPath),
       Line("comment", AltPaths[1]),
       Line("comment", AltPaths[2]),
       Line("comment", AltPaths[3]),
       Line("comment", AltPaths[4]),
       Line("blank", ""),
       Line("endif", GuardMacro) >>

BridgingHeader_DefineAfterInclude ==
    << Line("ifndef", GuardMacro),
       Line("blank", ""),
       Line("comment", "Using local copy of the header with suggested path"),
       Line("include", LocalPath),
       Line("define", GuardMacro),
       Line("comment", AltPaths[1]),
       Line("comment", AltPaths[2]),
       Line("comment", AltPaths[3]),
       Line("comment", AltPaths[4]),
       Line("blank", ""),
       Line("endif", GuardMacro) >>

\* the eleven lines of KuzuTestApp-Bridging-Header.h
BridgingHeader ==
    << Line("ifndef", GuardMacro),
       Line("define", GuardMacro),
       Line("blank", ""),
       Line("comment", "Using local copy of the header with suggested path"),
       Line("include", LocalPath),
       Line("comment", AltPaths[1]),
       Line("comment", AltPaths[2]),
       Line("comment", AltPaths[3]),
       Line("comment", AltPaths[4]),
       Line("blank", ""),
       Line("endif", GuardMacro) >>

(* ------------------------- the header's inputs ------------------------- *)

\* the name under which the header itself is included
BridgePath == "KuzuTestApp-Bridging-Header.h"

\* every path an #include of the model may name for kuzu.h
KuzuPaths == {LocalPath} \cup {AltPaths[i] : i \in DOMAIN AltPaths}

\* every path an #include of the model may look up: the header's own name is
\* looked up when kuzu.h includes it, from kuzu.h's directory and then on the
\* search path, and may resolve or not like any other
SearchPaths == KuzuPaths \cup {BridgePath}

\* the declarations kuzu.h may hold
KuzuSymbols == {"kuzu_database_init", "kuzu_connection_query"}

\* a line of kuzu.h: a declaration, or an include of the bridging header
KuzuLines == {Line("decl", s) : s \in KuzuSymbols} \cup {Line("include", BridgePath)}

RECURSIVE SeqsUpTo(_, _)
SeqsUpTo(S, n) ==
    IF n = 0 THEN {<<>>}
    ELSE LET shorter == SeqsUpTo(S, n - 1)
         IN  shorter \cup {Append(t, x) : t \in {u \in shorter : Len(u) = n - 1}, x \in S}

KuzuTexts == SeqsUpTo(KuzuLines, MaxKuzuLen)

(* ------------------------------- state --------------------------------- *)

VARIABLES
    resolvable,    \* the include paths that resolve
    kuzuText,      \* the lines of kuzu.h
    defined,       \* names defined so far: [name, kind, by]
    stack,         \* include stack: [file, pc, skip, entry], innermost last
    lookups,       \* include paths looked up so far: [by, path]
    error,         \* "none", or the fatal error that stopped the build
    unitIncludes,  \* inclusions of the header the unit has started
    includesDone,  \* times the header's own #include has been processed
    kuzuDone       \* an inclusion of kuzu.h has been processed to its end

vars == << resolvable, kuzuText, defined, stack, lookups, error,
           unitIncludes, includesDone, kuzuDone >>

Def(n, k, f) == [name |-> n, kind |-> k, by |-> f]

MacrosOf(d) == {x.name : x \in {y \in d : y.kind = "macro"}}

Macros == MacrosOf(defined)

SymbolsOf(d) == {x.name : x \in {y \in d : y.kind = "symbol"}}

Visible == SymbolsOf(defined)

\* the declarations of kuzu.h
KuzuDecls == {kuzuText[i].arg : i \in {j \in DOMAIN kuzuText : kuzuText[j].kind = "decl"}}

Text(f) == IF f = "bridge" THEN BridgingHeader ELSE kuzuText

FileOf(path) == IF path = BridgePath THEN "bridge" ELSE "kuzu"

Resolves(path) == path \in resolvable

Frame(f) == [file |-> f, pc |-> 1, skip |-> FALSE, entry |-> defined]

Top == stack[Len(stack)]

Running == error = "none" /\ stack # <<>>

AtLine == Running /\ Top.pc <= Len(Text(Top.file))

Cur == Text(Top.file)[Top.pc]

Advance(s) == [s EXCEPT ![Len(s)].pc = @ + 1]

(* ------------------------------- Init ---------------------------------- *)

Init ==
    /\ resolvable \in SUBSET SearchPaths
    /\ kuzuText \in KuzuTexts
    /\ defined \in {{}, {Def(GuardMacro, "macro", "unit")}}
    /\ stack = <<>>
    /\ lookups = {}
    /\ error = "none"
    /\ unitIncludes = 0
    /\ includesDone = 0
    /\ kuzuDone = FALSE

(* ------------------------------ actions -------------------------------- *)

\* the compilation unit includes the bridging header
UnitInclude ==
    /\ error = "none"
    /\ stack = <<>>
    /\ unitIncludes < MaxIncludes
    /\ stack' = << Frame("bridge") >>
    /\ unitIncludes' = unitIncludes + 1
    /\ UNCHANGED << resolvable, kuzuText, defined, lookups, error, includesDone, kuzuDone >>

\* #ifndef M: the group that follows is skipped when M is defined
Ifndef ==
    /\ AtLine
    /\ ~Top.skip
    /\ Cur.kind = "ifndef"
    /\ stack' = [stack EXCEPT ![Len(stack)].pc = @ + 1,
                              ![Len(stack)].skip = Cur.arg \in Macros]
    /\ UNCHANGED << resolvable, kuzuText, defined, lookups, error,
                    unitIncludes, includesDone, kuzuDone >>

\* #define M
Define ==
    /\ AtLine
    /\ ~Top.skip
    /\ Cur.kind = "define"
    /\ defined' = defined \cup {Def(Cur.arg, "macro", Top.file)}
    /\ stack' = Advance(stack)
    /\ UNCHANGED << resolvable, kuzuText, lookups, error,
                    unitIncludes, includesDone, kuzuDone >>

\* a mutant of Include: a path that does not resolve is passed over
Include_IgnoreMissing ==
    /\ AtLine
    /\ ~Top.skip
    /\ Cur.kind \in {"include", "import"}
    /\ lookups' = lookups \cup {[by |-> Top.file, path |-> Cur.arg]}
    /\ includesDone' = IF Top.file = "bridge" THEN includesDone + 1 ELSE includesDone
    /\ IF ~Resolves(Cur.arg)
       THEN /\ stack' = Advance(stack)
            /\ error' = error
       ELSE IF Len(stack) >= MaxDepth
       THEN /\ error' = "too_deep"
            /\ stack' = stack
       ELSE /\ stack' = Append(Advance(stack), Frame(FileOf(Cur.arg)))
            /\ error' = error
    /\ UNCHANGED << resolvable, kuzuText, defined, unitIncludes, kuzuDone >>

\* #include "path": the path is looked up; the build stops when it does not
\* resolve or the nesting is too deep; otherwise the file is entered
Include ==
    /\ AtLine
    /\ ~Top.skip
    /\ Cur.kind \in {"include", "import"}
    /\ lookups' = lookups \cup {[by |-> Top.file, path |-> Cur.arg]}
    /\ includesDone' = IF Top.file = "bridge" THEN includesDone + 1 ELSE includesDone
    /\ IF ~Resolves(Cur.arg)
       THEN /\ error' = "not_found"
            /\ stack' = stack
       ELSE IF Len(stack) >= MaxDepth
       THEN /\ error' = "too_deep"
            /\ stack' = stack
       ELSE /\ stack' = Append(Advance(stack), Frame(FileOf(Cur.arg)))
            /\ error' = error
    /\ UNCHANGED << resolvable, kuzuText, defined, unitIncludes, kuzuDone >>

\* a declaration: its name becomes visible
Declare ==
    /\ AtLine
    /\ ~Top.skip
    /\ Cur.kind = "decl"
    /\ defined' = defined \cup {Def(Cur.arg, "symbol", Top.file)}
    /\ stack' = Advance(stack)
    /\ UNCHANGED << resolvable, kuzuText, lookups, error,
                    unitIncludes, includesDone, kuzuDone >>

\* a comment or a blank line
Pass ==
    /\ AtLine
    /\ ~Top.skip
    /\ Cur.kind \in {"comment", "blank"}
    /\ stack' = Advance(stack)
    /\ UNCHANGED << resolvable, kuzuText, defined, lookups, error,
                    unitIncludes, includesDone, kuzuDone >>

\* a line of a skipped group: nothing in it is processed
Skip ==
    /\ AtLine
    /\ Top.skip
    /\ Cur.kind # "endif"
    /\ stack' = Advance(stack)
    /\ UNCHANGED << resolvable, kuzuText, defined, lookups, error,
                    unitIncludes, includesDone, kuzuDone >>

\* #endif: the conditional group ends
Endif ==
    /\ AtLine
    /\ Cur.kind = "endif"
    /\ stack' = [stack EXCEPT ![Len(stack)].pc = @ + 1,
                              ![Len(stack)].skip = FALSE]
    /\ UNCHANGED << resolvable, kuzuText, defined, lookups, error,
                    unitIncludes, includesDone, kuzuDone >>

\* the end of a file: processing returns to the file that included it
EndOfFile ==
    /\ Running
    /\ Top.pc > Len(Text(Top.file))
    /\ kuzuDone' = IF Top.file = "kuzu" THEN TRUE ELSE kuzuDone
    /\ stack' = SubSeq(stack, 1, Len(stack) - 1)
    /\ UNCHANGED << resolvable, kuzuText, defined, lookups, error,
                    unitIncludes, includesDone >>

Next ==
    \/ UnitInclude
    \/ Ifndef
    \/ Define
    \/ Include
    \/ Declare
    \/ Pass
    \/ Skip
    \/ Endif
    \/ EndOfFile

Spec == Init /\ [][Next]_vars

\* the preprocessor runs until the unit is done or the build has stopped
FairSpec == Spec /\ WF_vars(Next)

(* ------------------------------ claims --------------------------------- *)

GuardDef == Def(GuardMacro, "macro", "bridge")

\* the guard macro was already defined when the unit started
GuardPredefined == Def(GuardMacro, "macro", "unit") \in defined

\* the unit's first inclusion of the header has been processed to its end
FirstDone == unitIncludes >= 2 \/ (unitIncludes = 1 /\ stack = <<>>)

\* the paths the header's own directives have looked up
BridgeLookups == {l.path : l \in {m \in lookups : m.by = "bridge"}}

\* the lines of kuzu.h that include the bridging header
Reentries == {i \in DOMAIN kuzuText : kuzuText[i].kind = "include"}

\* kuzu.h holds an include of the bridging header that does not resolve
KuzuFails == Reentries # {} /\ BridgePath \notin resolvable

\* the declarations of kuzu.h above its first include of the bridging header
DeclsBeforeReentry ==
    {kuzuText[i].arg : i \in {j \in DOMAIN kuzuText :
                                  /\ kuzuText[j].kind = "decl"
                                  /\ \A r \in Reentries : j < r}}

\* C1: once the header has been included for the first time in a unit where
\* the guard macro was not defined and "KuzuHeaders/kuzu.h" resolves, every
\* symbol kuzu.h declares is visible.
C1_SymbolsVisible ==
    (FirstDone /\ ~GuardPredefined /\ LocalPath \in resolvable)
        => KuzuDecls \subseteq Visible

C1_Witness ==
    /\ FirstDone
    /\ ~GuardPredefined
    /\ LocalPath \in resolvable
    /\ KuzuDecls = KuzuSymbols
    /\ KuzuDecls \subseteq Visible

\* C2: the header looks up one include path only, "KuzuHeaders/kuzu.h"; the
\* four commented-out paths are never looked up, and the outcome (whether the
\* build fails, the names defined) is fixed by the guard, the local path,
\* kuzu.h and the resolution of kuzu.h's own include, whichever of the four
\* alternatives resolve.
C2_OnlyLocalPath ==
    /\ BridgeLookups \subseteq {LocalPath}
    /\ (includesDone >= 1 => BridgeLookups = {LocalPath})
    /\ (error # "none" =>
          /\ error = "not_found"
          /\ ~GuardPredefined
          /\ (LocalPath \notin resolvable \/ KuzuFails)
          /\ defined = IF LocalPath \notin resolvable
                       THEN {GuardDef}
                       ELSE {GuardDef} \cup {Def(s, "symbol", "kuzu") : s \in DeclsBeforeReentry})
    /\ (FirstDone =>
          /\ error = "none"
          /\ (GuardPredefined \/ (LocalPath \in resolvable /\ ~KuzuFails))
          /\ defined = IF GuardPredefined
                       THEN {Def(GuardMacro, "macro", "unit")}
                       ELSE {GuardDef} \cup {Def(s, "symbol", "kuzu") : s \in KuzuDecls})

C2_Witness ==
    /\ FirstDone
    /\ BridgeLookups = {LocalPath}
    /\ AltPaths[1] \in resolvable
    /\ AltPaths[2] \notin resolvable
    /\ KuzuDecls # {}

\* C3: the header defines one name of its own, the guard macro, and no
\* symbol; every other name that becomes defined is a declaration of kuzu.h.
C3_NothingButTheGuard ==
    /\ {d \in defined : d.by = "bridge"} \subseteq {GuardDef}
    /\ \A d \in defined :
          \/ d.by = "unit"
          \/ d = GuardDef
          \/ (d.by = "kuzu" /\ d.kind = "symbol" /\ d.name \in KuzuDecls)
    /\ ((FirstDone /\ ~GuardPredefined) => GuardDef \in defined)

C3_Witness ==
    /\ FirstDone
    /\ ~GuardPredefined
    /\ GuardDef \in defined
    /\ KuzuDecls # {}
    /\ KuzuDecls \subseteq Visible

\* the build has stopped at the header's own #include, line 5
FailedAtLine5 ==
    /\ error = "not_found"
    /\ Len(stack) = 1
    /\ Top.file = "bridge"
    /\ Cur = Line("include", LocalPath)
    /\ LocalPath \notin resolvable

\* the build has stopped inside kuzu.h, at its include of the bridging header
FailedInKuzu ==
    /\ error = "not_found"
    /\ Len(stack) = 2
    /\ Top.file = "kuzu"
    /\ Cur = Line("include", BridgePath)
    /\ BridgePath \notin resolvable

\* C4 as claimed: the one failure is the header's #include of
\* "KuzuHeaders/kuzu.h" not resolving, and the build then stops with no
\* declaration of kuzu.h visible.
C4_AsClaimed ==
    error # "none" => (FailedAtLine5 /\ {d \in defined : d.by = "kuzu"} = {})

\* C4, amended: the header's own directives fail in one way only, the
\* #include of "KuzuHeaders/kuzu.h" not resolving, and the build then stops
\* with no declaration of kuzu.h visible; the build may also stop inside
\* kuzu.h, at an include written there that does not resolve, with the
\* declarations above it visible; and once an inclusion of kuzu.h has been
\* processed to its end, the build has not failed and all of kuzu.h's
\* declarations are visible.
C4_FailsOnlyUnresolved ==
    /\ error \in {"none", "not_found"}
    /\ (error = "not_found" => (FailedAtLine5 \/ FailedInKuzu))
    /\ (FailedAtLine5 => ({d \in defined : d.by = "kuzu"} = {} /\ ~kuzuDone))
    /\ (FailedInKuzu =>
          /\ LocalPath \in resolvable
          /\ Visible = DeclsBeforeReentry
          /\ ~kuzuDone)
    /\ ((LocalPath \in BridgeLookups /\ LocalPath \notin resolvable) => FailedAtLine5)
    /\ (kuzuDone => (error = "none" /\ KuzuDecls \subseteq Visible))

C4_Witness ==
    /\ FailedInKuzu
    /\ AltPaths[1] \in resolvable
    /\ Visible # {}
    /\ Visible # KuzuDecls

\* C5: whatever the sequence of inclusions, the header's #include of kuzu.h
\* is processed at most once, and an inclusion begun with the guard macro
\* defined leaves the defined macros and the visible symbols as they were.
C5_Idempotent ==
    /\ includesDone <= 1
    /\ \A i \in DOMAIN stack :
          (stack[i].file = "bridge" /\ GuardMacro \in MacrosOf(stack[i].entry))
              => (i = Len(stack) /\ defined = stack[i].entry)

C5_Witness ==
    /\ stack # <<>>
    /\ unitIncludes = 2
    /\ ~GuardPredefined
    /\ includesDone = 1
    /\ Top.file = "bridge"
    /\ Top.pc > Len(BridgingHeader)
    /\ KuzuDecls # {}

\* a re-entrant inclusion of the header: entered with the guard defined, and
\* none of its lines after the #ifndef is processed
ReentrantSkipped ==
    \A i \in DOMAIN stack :
        (i > 1 /\ stack[i].file = "bridge")
            => /\ GuardMacro \in MacrosOf(stack[i].entry)
               /\ (stack[i].pc = 1 \/ stack[i].skip \/ stack[i].pc > Len(BridgingHeader))

C6_Safe ==
    /\ error # "too_deep"
    /\ Len(stack) <= 3
    /\ (includesDone >= 1 => GuardMacro \in Macros)
    /\ ReentrantSkipped

\* C6: the guard macro is defined before the nested #include is processed, a
\* re-entrant inclusion of the header that kuzu.h enters is skipped, the nesting
\* never grows past header, kuzu.h, header, and every inclusion that has
\* begun comes to its end or to the build's failure.
C6_Terminates ==
    /\ []C6_Safe
    /\ (stack # <<>>) ~> (stack = <<>> \/ error # "none")

C6_Witness ==
    /\ Len(stack) = 3
    /\ Top.file = "bridge"
    /\ Top.skip
    /\ stack[1].file = "bridge"
    /\ stack[1].pc = 6

=============================================================================
